---- MODULE Spec2Model ----
(***************************************************************************)
(* Model of vot/region/raster.py: bounds of a region, rasterization of the *)
(* region variants onto an integer window, mask copy, and the overlap      *)
(* (intersection over union) of two regions.                               *)
(*                                                                         *)
(* Conventions.                                                            *)
(*   - A tuple of the source is a TLA+ tuple, 1-indexed: bounds[0] of the  *)
(*     source is bounds[1] here.                                           *)
(*   - A 2-D array is a sequence of rows; cell [r, c] of the source is     *)
(*     m[r+1][c+1] here.                                                   *)
(*   - A region is a record [t, rect, pts, mask, o]: the type tag, and the *)
(*     data of the variant the tag selects (the other fields are unused).  *)
(*   - Coordinates are integers, so np.round leaves them unchanged.        *)
(*   - A float result is the reduced fraction <<numerator, denominator>>.  *)
(***************************************************************************)
EXTENDS Integers, Sequences, FiniteSets, TLC

VARIABLES
    reg1,           \* first region
    reg2,           \* second region
    bounds,         \* image size (width, height), or <<>> for None
    ignore,         \* <<>> for None, or <<region>>
    pc,             \* position in the running function
    raster_bounds,  \* window that is rasterized
    m1, m2, m3,     \* rasterized regions
    i,              \* loop index (pixel of the counting loop, row of the scanline loop)
    intersection,
    union_,
    result          \* <<>> until the function has returned

vars == <<reg1, reg2, bounds, ignore, pc, raster_bounds, m1, m2, m3, i,
          intersection, union_, result>>

----------------------------------------------------------------------------
(* Bounds of the model *)

\* coordinates of regions and windows range over -MaxCoord .. MaxCoord-1
MaxCoord == 2
\* widths and heights of rectangles range over 0 .. MaxExtent
MaxExtent == 2

Coord == (0 - MaxCoord) .. (MaxCoord - 1)
Extent == 0 .. MaxExtent

----------------------------------------------------------------------------
(* Region types *)

_TYPE_EMPTY == 0
_TYPE_RECTANGLE == 1
_TYPE_POLYGON == 2
_TYPE_MASK == 3

Min(a, b) == IF a < b THEN a ELSE b
Max(a, b) == IF a > b THEN a ELSE b

\* np.zeros((height, width))
Zeros(height, width) == [r \in 1..height |-> [c \in 1..width |-> 0]]

\* The indices a Python slice start:stop selects of an axis of length n
\* (a negative index counts from the end, then both are clamped to 0..n).
SliceIndex(v, n) == IF v < 0 THEN Max(v + n, 0) ELSE Min(v, n)
Slice(start, stop, n) ==
    {k \in 0..(n - 1) : k >= SliceIndex(start, n) /\ k < SliceIndex(stop, n)}

\* float(a) / float(b), b > 0, as a reduced fraction
RECURSIVE GCD(_, _)
GCD(a, b) == IF b = 0 THEN a ELSE GCD(b, a % b)
Float(n) == <<n, 1>>
Divide(a, b) == <<a \div GCD(a, b), b \div GCD(a, b)>>

\* int(v) of the float n / d: truncation towards zero
Trunc(n, d) ==
    LET an == IF n < 0 THEN 0 - n ELSE n
        ad == IF d < 0 THEN 0 - d ELSE d
        q == an \div ad
    IN  IF (n < 0) # (d < 0) THEN 0 - q ELSE q

----------------------------------------------------------------------------
(* Regions as the shape layer hands them over *)

Empty == [t |-> _TYPE_EMPTY, rect |-> <<0, 0, 0, 0>>, pts |-> <<>>, mask |-> <<>>, o |-> <<0, 0>>]
Rectangle(x, y, w, h) ==
    [t |-> _TYPE_RECTANGLE, rect |-> <<x, y, w, h>>, pts |-> <<>>, mask |-> <<>>, o |-> <<0, 0>>]
Polygon(points) ==
    [t |-> _TYPE_POLYGON, rect |-> <<0, 0, 0, 0>>, pts |-> points, mask |-> <<>>, o |-> <<0, 0>>]
Mask(grid, offset) ==
    [t |-> _TYPE_MASK, rect |-> <<0, 0, 0, 0>>, pts |-> <<>>, mask |-> grid, o |-> offset]

----------------------------------------------------------------------------
(* mask_bounds *)

mask_bounds(mask) ==
    LET set == {p \in (1..Len(mask)) \X (1..Len(mask[1])) : mask[p[1]][p[2]] # 0}
        rows == {p[1] - 1 : p \in set}
        cols == {p[2] - 1 : p \in set}
        lo(S) == CHOOSE v \in S : \A u \in S : v <= u
        hi(S) == CHOOSE v \in S : \A u \in S : v >= u
    IN  IF set = {} THEN <<0, 0, 0, 0>>
        ELSE <<lo(cols), lo(rows), hi(cols), hi(rows)>>

----------------------------------------------------------------------------
(* rasterize_rectangle *)

rasterize_rectangle(data, b) ==
    LET width == b[3] - b[1] + 1
        height == b[4] - b[2] + 1
        left == Max(0, data[1] - b[1])
        top == Max(0, data[2] - b[2])
        right == Min(b[3], data[1] + data[3] - 1 - b[1])
        bottom == Min(b[4], data[2] + data[4] - 1 - b[2])
        rows == Slice(top, bottom + 1, height)
        cols == Slice(left, right + 1, width)
    IN  IF \/ data[1] > b[3]
           \/ data[1] + data[3] - 1 < b[1]
           \/ data[2] > b[4]
           \/ data[2] + data[4] - 1 < b[2]
        THEN Zeros(height, width)
        ELSE [r \in 1..height |-> [c \in 1..width |->
                 IF (r - 1) \in rows /\ (c - 1) \in cols THEN 1 ELSE 0]]

----------------------------------------------------------------------------
(* rasterize_polygon *)

\* polygon = round(data) - (bounds[0], bounds[1])
ShiftPolygon(data, b) == [n \in 1..Len(data) |-> <<data[n][1] - b[1], data[n][2] - b[2]>>]

\* the test that edge (j, i) gives a node on row pixelY
EdgeOnRow(pi, pj, pixelY) ==
    \/ pi[2] <= pixelY /\ pj[2] > pixelY
    \/ pj[2] <= pixelY /\ pi[2] > pixelY
    \/ pi[2] < pixelY /\ pj[2] >= pixelY
    \/ pj[2] < pixelY /\ pi[2] >= pixelY
    \/ pi[2] = pj[2] /\ pi[2] = pixelY

\* the value stored in the int64 array nodeX for edge (j, i)
NodeOfEdge(pi, pj, pixelY) ==
    LET r == pj[2] - pi[2]
        k == pj[1] - pi[1]
    IN  IF r # 0 THEN Trunc(pi[1] * r + (pixelY - pi[2]) * k, r) ELSE pi[1]

\* "Build a list of nodes": the edges are visited for i = 0 .. count-1, j the vertex before i
BuildNodes(polygon, pixelY) ==
    LET count == Len(polygon)
        prev(n) == IF n = 1 THEN count ELSE n - 1
        hits == SelectSeq([n \in 1..count |-> n],
                          LAMBDA n : EdgeOnRow(polygon[n], polygon[prev(n)], pixelY))
    IN  [n \in 1..Len(hits) |-> NodeOfEdge(polygon[hits[n]], polygon[prev(hits[n])], pixelY)]

\* "Sort the nodes": the loop at index k (0-based) over the first Len(nodeX) entries
RECURSIVE SortNodes(_, _)
SortNodes(nodeX, k) ==
    IF ~(k < Len(nodeX) - 1) THEN nodeX
    ELSE IF nodeX[k + 1] > nodeX[k + 2]
         THEN SortNodes([nodeX EXCEPT ![k + 1] = nodeX[k + 2], ![k + 2] = nodeX[k + 1]],
                        IF k # 0 THEN k - 1 ELSE k)
         ELSE SortNodes(nodeX, k + 1)

\* "Fill the pixels between node pairs": the loop at index k (0-based), row is mask[pixelY, :]
RECURSIVE FillRow(_, _, _, _)
FillRow(nodeX, k, width, row) ==
    LET nodes == Len(nodeX)
        lo == IF nodeX[k + 1] < 0 THEN 0 ELSE nodeX[k + 1]
        hi == IF nodeX[k + 2] >= width THEN width - 1 ELSE nodeX[k + 2]
    IN  IF ~(k < nodes - 1) THEN row
        ELSE IF nodeX[k + 1] >= width THEN row
        ELSE IF nodeX[k + 1] = nodeX[k + 2] /\ k < nodes - 2
             THEN FillRow(nodeX, k + 1, width, row)
        ELSE IF nodeX[k + 2] >= 0
             THEN FillRow([nodeX EXCEPT ![k + 1] = lo, ![k + 2] = hi], k + 2, width,
                          [c \in 1..width |-> IF lo <= c - 1 /\ c - 1 <= hi THEN 1 ELSE row[c]])
        ELSE FillRow(nodeX, k + 2, width, row)

\* one turn of the loop over the rows of the image
ScanRow(polygon, width, pixelY) ==
    FillRow(SortNodes(BuildNodes(polygon, pixelY), 0), 0, width, [c \in 1..width |-> 0])

rasterize_polygon(data, b) ==
    LET width == b[3] - b[1] + 1
        height == b[4] - b[2] + 1
        polygon == ShiftPolygon(data, b)
    IN  [r \in 1..height |-> ScanRow(polygon, width, r - 1)]

----------------------------------------------------------------------------
(* copy_mask *)

\* copy_mask that reads the source from its first cell, whatever the window cuts off
CopyFrameUncropped(mask, offset, b) ==
    LET tx == Max(offset[1], b[1])
        ty == Max(offset[2], b[2])
    IN  [ox |-> tx - b[1], oy |-> ty - b[2],
         gx |-> 0, gy |-> 0,
         tw |-> Min(b[3] + 1, offset[1] + Len(mask[1])) - tx,
         th |-> Min(b[4] + 1, offset[2] + Len(mask)) - ty]

\* the loop limits and index shifts of copy_mask
CopyFrame(mask, offset, b) ==
    LET tx == Max(offset[1], b[1])
        ty == Max(offset[2], b[2])
    IN  [ox |-> tx - b[1], oy |-> ty - b[2],
         gx |-> tx - offset[1], gy |-> ty - offset[2],
         tw |-> Min(b[3] + 1, offset[1] + Len(mask[1])) - tx,
         th |-> Min(b[4] + 1, offset[2] + Len(mask)) - ty]

\* mask[r, c]; the compiled code does not check the index, and a read outside
\* the array gives a value that is no pixel of the mask (here -1)
ReadCell(mask, r, c) ==
    IF r \in 0..(Len(mask) - 1) /\ c \in 0..(Len(mask[1]) - 1)
    THEN mask[r + 1][c + 1] ELSE 0 - 1

copy_mask(mask, offset, b) ==
    LET f == CopyFrame(mask, offset, b)
    IN  [r \in 1..(b[4] - b[2] + 1) |-> [c \in 1..(b[3] - b[1] + 1) |->
            IF /\ (r - 1) - f.oy \in 0..(f.th - 1)
               /\ (c - 1) - f.ox \in 0..(f.tw - 1)
            THEN ReadCell(mask, (r - 1) - f.oy + f.gy, (c - 1) - f.ox + f.gx)
            ELSE 0]]

\* every index the two loops of copy_mask use lies inside its array
CopyIndicesInRange(mask, offset, b) ==
    LET f == CopyFrame(mask, offset, b)
    IN  \A ii \in 0..(f.th - 1) : \A jj \in 0..(f.tw - 1) :
            /\ ii + f.oy \in 0..(b[4] - b[2])
            /\ jj + f.ox \in 0..(b[3] - b[1])
            /\ ii + f.gy \in 0..(Len(mask) - 1)
            /\ jj + f.gx \in 0..(Len(mask[1]) - 1)

----------------------------------------------------------------------------
(* Bounds of a region *)

_bounds_rectangle(a) == <<a[1], a[2], a[1] + a[3] - 1, a[2] + a[4] - 1>>

_bounds_polygon(a) ==
    LET xs == {a[n][1] : n \in 1..Len(a)}
        ys == {a[n][2] : n \in 1..Len(a)}
        lo(S) == CHOOSE v \in S : \A u \in S : v <= u
        hi(S) == CHOOSE v \in S : \A u \in S : v >= u
    IN  <<lo(xs), lo(ys), hi(xs), hi(ys)>>

_bounds_mask(a, o) ==
    LET b == mask_bounds(a)
    IN  <<b[1] + o[1], b[2] + o[2], b[3] + o[1], b[4] + o[2]>>

_region_bounds(reg) ==
    IF reg.t = _TYPE_RECTANGLE THEN _bounds_rectangle(reg.rect)
    ELSE IF reg.t = _TYPE_POLYGON THEN _bounds_polygon(reg.pts)
    ELSE IF reg.t = _TYPE_MASK THEN _bounds_mask(reg.mask, reg.o)
    ELSE <<0, 0, 0, 0>>

_region_raster(reg, b) ==
    IF reg.t = _TYPE_RECTANGLE THEN rasterize_rectangle(reg.rect, b)
    ELSE IF reg.t = _TYPE_POLYGON THEN rasterize_polygon(reg.pts, b)
    ELSE IF reg.t = _TYPE_MASK THEN copy_mask(reg.mask, reg.o, b)
    ELSE Zeros(b[4] - b[2] + 1, b[3] - b[1] + 1)

----------------------------------------------------------------------------
(* _calculate_overlap *)

\* a union that takes its left edge from the first region alone
UnionBoundsLeftOfFirst(b1, b2) == <<b1[1], Min(b1[2], b2[2]), Max(b1[3], b2[3]), Max(b1[4], b2[4])>>

UnionBounds(b1, b2) == <<Min(b1[1], b2[1]), Min(b1[2], b2[2]), Max(b1[3], b2[3]), Max(b1[4], b2[4])>>

\* the test before "Two empty regons are considered to be identical"
UnionIsEmpty(u) == u[1] >= u[3] \/ u[2] >= u[4]

RasterBounds(u, bnds) ==
    IF bnds # <<>>
    THEN <<Max(0, u[1]), Max(0, u[2]), Min(bnds[1] - 1, u[3]), Min(bnds[2] - 1, u[4])>>
    ELSE u

\* the test before "Regions are not identical, but are outside rasterization bounds"
OutsideRaster(rb) == rb[1] >= rb[3] \/ rb[2] >= rb[4]

\* "not ignore is None and it != _TYPE_EMPTY"
UseIgnore(ign) == ign # <<>> /\ ign[1].t # _TYPE_EMPTY

\* m.ravel()[k] and m.ravel().size
Ravel(m, k) == m[(k \div Len(m[1])) + 1][(k % Len(m[1])) + 1]
RavelSize(m) == Len(m) * Len(m[1])

\* a loop body with the two tests exchanged
CountPixelExchanged(c, v1, v2, skip) ==
    IF skip THEN c
    ELSE IF v1 # 0 \/ v2 # 0
         THEN <<c[1] + 1, IF v1 # 0 /\ v2 # 0 THEN c[2] + 1 ELSE c[2]>>
         ELSE c

\* the body of the counting loops: c = <<intersection, union_>>, v1 v2 the pixel of a1 a2,
\* skip whether the pixel is ignored
CountPixel(c, v1, v2, skip) ==
    IF skip THEN c
    ELSE IF v1 # 0 \/ v2 # 0
         THEN <<IF v1 # 0 /\ v2 # 0 THEN c[1] + 1 ELSE c[1], c[2] + 1>>
         ELSE c

\* the return statement
Ratio(c) == IF c[2] > 0 THEN Divide(c[1], c[2]) ELSE Float(0)

RECURSIVE CountLoop(_, _, _, _, _)
CountLoop(a1, a2, a3, k, c) ==
    IF k = RavelSize(a1) THEN c
    ELSE CountLoop(a1, a2, a3, k + 1,
                   CountPixel(c, Ravel(a1, k), Ravel(a2, k), a3 # <<>> /\ Ravel(a3, k) # 0))

_calculate_overlap(a, b, bnds, ign) ==
    LET u == UnionBounds(_region_bounds(a), _region_bounds(b))
        rb == RasterBounds(u, bnds)
    IN  IF UnionIsEmpty(u) THEN Float(1)
        ELSE IF OutsideRaster(rb) THEN Float(0)
        ELSE Ratio(CountLoop(_region_raster(a, rb), _region_raster(b, rb),
                             IF UseIgnore(ign) THEN _region_raster(ign[1], rb) ELSE <<>>,
                             0, <<0, 0>>))

----------------------------------------------------------------------------
(* The inputs of the overlap *)

\* the image sizes: width and height range over 1 .. MaxFrame
MaxFrame == 2

Ones(height, width) == [r \in 1..height |-> [c \in 1..width |-> 1]]

MaskGrids ==
    { <<<<0>>>>, <<<<1>>>>, <<<<1, 0>>, <<0, 1>>>>, <<<<0, 0>>, <<0, 0>>>> }

Polygons ==
    { <<<<0 - 2, 0 - 2>>, <<1, 0 - 2>>, <<0 - 2, 1>>>>,
      <<<<0, 0>>, <<1, 0>>, <<1, 1>>, <<0, 1>>>>,
      <<<<0 - 1, 0 - 2>>, <<0, 0 - 1>>, <<0 - 1, 0>>, <<0 - 2, 0 - 1>>>> }

Regions ==
    {Empty}
    \cup {Rectangle(x, y, w, h) : x \in Coord, y \in Coord, w \in Extent, h \in Extent}
    \cup {Mask(g, <<x, y>>) : g \in MaskGrids, x \in Coord, y \in Coord}
    \cup {Polygon(p) : p \in Polygons}

\* the regions the first one is compared with (besides itself)
References ==
    { Empty,
      Rectangle(0, 0, 1, 1), Rectangle(0, 0, 2, 2), Rectangle(1, 1, 0, 0),
      Rectangle(0 - 1, 0 - 1, 2, 2),
      Mask(<<<<0>>>>, <<1, 1>>), Mask(<<<<1, 0>>, <<0, 1>>>>, <<0 - 1, 0>>),
      Polygon(<<<<0, 0>>, <<1, 0>>, <<1, 1>>, <<0, 1>>>>) }

Frames == {<<>>} \cup {<<w, h>> : w \in 1..MaxFrame, h \in 1..MaxFrame}

\* a side that reaches from the least coordinate past every pixel of every region
Span == 2 * MaxCoord + MaxExtent

Ignores ==
    { <<>>, <<Empty>>,
      <<Rectangle(0 - MaxCoord, 0 - MaxCoord, Span, Span)>>,
      <<Mask(Ones(Span, Span), <<0 - MaxCoord, 0 - MaxCoord>>)>>,
      <<Mask(<<<<1>>>>, <<0, 0>>)>> }

----------------------------------------------------------------------------
(* calculate_overlap, step by step *)

Init ==
    /\ reg1 \in Regions
    /\ reg2 \in References \cup {reg1}
    /\ bounds \in Frames
    /\ ignore \in Ignores
    /\ pc = "start"
    /\ raster_bounds = <<>>
    /\ m1 = <<>> /\ m2 = <<>> /\ m3 = <<>>
    /\ i = 0 /\ intersection = 0 /\ union_ = 0
    /\ result = <<>>

union == UnionBounds(_region_bounds(reg1), _region_bounds(reg2))

\* return float(1)
ReturnIdentical ==
    /\ pc = "start"
    /\ UnionIsEmpty(union)
    /\ result' = Float(1)
    /\ pc' = "done"
    /\ UNCHANGED <<reg1, reg2, bounds, ignore, raster_bounds, m1, m2, m3, i, intersection, union_>>

\* return float(0)
ReturnOutside ==
    /\ pc = "start"
    /\ ~UnionIsEmpty(union)
    /\ OutsideRaster(RasterBounds(union, bounds))
    /\ result' = Float(0)
    /\ pc' = "done"
    /\ UNCHANGED <<reg1, reg2, bounds, ignore, raster_bounds, m1, m2, m3, i, intersection, union_>>

\* the bounds are computed and the regions rasterized; the counting loop is entered
Rasterize ==
    /\ pc = "start"
    /\ ~UnionIsEmpty(union)
    /\ ~OutsideRaster(RasterBounds(union, bounds))
    /\ raster_bounds' = RasterBounds(union, bounds)
    /\ m1' = _region_raster(reg1, raster_bounds')
    /\ m2' = _region_raster(reg2, raster_bounds')
    /\ m3' = IF UseIgnore(ignore) THEN _region_raster(ignore[1], raster_bounds') ELSE <<>>
    /\ i' = 0 /\ intersection' = 0 /\ union_' = 0
    /\ pc' = "count"
    /\ UNCHANGED <<reg1, reg2, bounds, ignore, result>>

\* one turn of the loop that looks at a3
CountWithIgnore ==
    /\ pc = "count"
    /\ UseIgnore(ignore)
    /\ i < RavelSize(m1)
    /\ LET c == CountPixel(<<intersection, union_>>, Ravel(m1, i), Ravel(m2, i), Ravel(m3, i) # 0)
       IN  intersection' = c[1] /\ union_' = c[2]
    /\ i' = i + 1
    /\ UNCHANGED <<reg1, reg2, bounds, ignore, pc, raster_bounds, m1, m2, m3, result>>

\* one turn of the loop without ignore
Count ==
    /\ pc = "count"
    /\ ~UseIgnore(ignore)
    /\ i < RavelSize(m1)
    /\ LET c == CountPixel(<<intersection, union_>>, Ravel(m1, i), Ravel(m2, i), FALSE)
       IN  intersection' = c[1] /\ union_' = c[2]
    /\ i' = i + 1
    /\ UNCHANGED <<reg1, reg2, bounds, ignore, pc, raster_bounds, m1, m2, m3, result>>

\* return float(intersection) / float(union_) if union_ > 0 else float(0)
Return ==
    /\ pc = "count"
    /\ i = RavelSize(m1)
    /\ result' = Ratio(<<intersection, union_>>)
    /\ pc' = "done"
    /\ UNCHANGED <<reg1, reg2, bounds, ignore, raster_bounds, m1, m2, m3, i, intersection, union_>>

Next ==
    \/ ReturnIdentical
    \/ ReturnOutside
    \/ Rasterize
    \/ CountWithIgnore
    \/ Count
    \/ Return

Spec == Init /\ [][Next]_vars

----------------------------------------------------------------------------
(* What the claims speak of: the pixels of a region, independent of any window *)

\* the pixels <<x, y>> of the box (left, top, right, bottom)
BoxPixels(b) == (b[1]..b[3]) \X (b[2]..b[4])

\* the pixels of a grid whose cell [0, 0] is the pixel origin
GridPixels(grid, origin) ==
    {<<origin[1] + p[2] - 1, origin[2] + p[1] - 1>> :
        p \in {q \in (1..Len(grid)) \X (1..Len(grid[1])) : grid[q[1]][q[2]] # 0}}

\* the pixels a region occupies (a polygon: what its scanline fill sets on its own bounding box)
PixelSet(reg) ==
    IF reg.t = _TYPE_RECTANGLE
    THEN (reg.rect[1]..(reg.rect[1] + reg.rect[3] - 1)) \X (reg.rect[2]..(reg.rect[2] + reg.rect[4] - 1))
    ELSE IF reg.t = _TYPE_MASK THEN GridPixels(reg.mask, reg.o)
    ELSE IF reg.t = _TYPE_POLYGON
    THEN GridPixels(rasterize_polygon(reg.pts, _bounds_polygon(reg.pts)),
                    <<_bounds_polygon(reg.pts)[1], _bounds_polygon(reg.pts)[2]>>)
    ELSE {}

PositiveRectangle(reg) == reg.t = _TYPE_RECTANGLE /\ reg.rect[3] > 0 /\ reg.rect[4] > 0

\* a rectangle with positive extents, a polygon, or a mask with a set pixel
NonEmptyShape(reg) ==
    \/ PositiveRectangle(reg)
    \/ reg.t = _TYPE_POLYGON
    \/ reg.t = _TYPE_MASK /\ GridPixels(reg.mask, reg.o) # {}

\* the empty variant, a mask without set pixel, or a rectangle of zero extent
EmptyShape(reg) ==
    \/ reg.t = _TYPE_EMPTY
    \/ reg.t = _TYPE_MASK /\ GridPixels(reg.mask, reg.o) = {}
    \/ reg.t = _TYPE_RECTANGLE /\ (reg.rect[3] = 0 \/ reg.rect[4] = 0)

\* the pixels of the image of size frame
FramePixels(frame) == (0..(frame[1] - 1)) \X (0..(frame[2] - 1))

Done == pc = "done"
Counted == pc = "done" /\ raster_bounds # <<>>

----------------------------------------------------------------------------
(* Claims about calculate_overlap *)

\* C1 (Self-overlap): the overlap of a non-empty region with itself is 1.0, at any
\* position, without frame or with a frame that contains the region.
SelfOverlapIsOne ==
    ( /\ Done
      /\ reg1 = reg2
      /\ NonEmptyShape(reg1)
      /\ ignore = <<>>
      /\ bounds # <<>> => PixelSet(reg1) \subseteq FramePixels(bounds) )
    => result = Float(1)

\* C2 (Disjointness): two rectangles of positive extents without a common pixel
\* overlap by 0.0 (no frame, no ignore region).
DisjointRectanglesAreZero ==
    ( /\ Done
      /\ PositiveRectangle(reg1) /\ PositiveRectangle(reg2)
      /\ PixelSet(reg1) \cap PixelSet(reg2) = {}
      /\ bounds = <<>> /\ ignore = <<>> )
    => result = Float(0)

\* C3 (Empty identity): two empty regions overlap by 1.0, whatever the frame and
\* the ignore region.
EmptyRegionsAreIdentical ==
    (Done /\ EmptyShape(reg1) /\ EmptyShape(reg2)) => result = Float(1)

\* C4 (Frame clipping): with a frame, a region entirely outside the frame gives 0.0,
\* and otherwise the result is the intersection over union of the pixels inside the
\* frame. (Stated for two regions that each have a pixel.)
FrameClipsToVisible ==
    ( /\ Done
      /\ bounds # <<>> /\ ignore = <<>>
      /\ PixelSet(reg1) # {} /\ PixelSet(reg2) # {} )
    => LET f == FramePixels(bounds)
           a == PixelSet(reg1) \cap f
           b == PixelSet(reg2) \cap f
       IN  result = IF a = {} \/ b = {} THEN Float(0)
                    ELSE Divide(Cardinality(a \cap b), Cardinality(a \cup b))

\* C5 (Ignore masking): an ignore region that covers every pixel of the union
\* bounding box makes the overlap 0.0. (Stated for regions that are not both empty,
\* the case C3 speaks of.)
IgnoreCoveringUnionIsZero ==
    ( /\ Done
      /\ bounds = <<>>
      /\ ignore # <<>> /\ ignore[1].t # _TYPE_EMPTY
      /\ BoxPixels(union) \subseteq PixelSet(ignore[1])
      /\ ~(EmptyShape(reg1) /\ EmptyShape(reg2)) )
    => result = Float(0)

\* C8 (Symmetry): the overlap of (A, B) under a frame equals the overlap of (B, A)
\* under the same frame.
OverlapIsSymmetric ==
    (Done /\ ignore = <<>>) => result = _calculate_overlap(reg2, reg1, bounds, ignore)

\* a pair of regions of different variants, clipped by a frame, that overlap in part
SymmetryWitness ==
    /\ Counted
    /\ reg1.t # reg2.t
    /\ bounds # <<>> /\ ignore = <<>>
    /\ 0 < intersection /\ intersection < union_
    /\ result = _calculate_overlap(reg2, reg1, bounds, ignore)

\* C9 (Range): the result lies in [0, 1]; while counting, intersection never
\* exceeds union_; a union count of zero gives 0.0.
ResultInRange ==
    /\ intersection <= union_
    /\ Done => (0 <= result[1] /\ result[1] <= result[2] /\ result[2] > 0)
    /\ (Counted /\ union_ = 0) => result = Float(0)

\* every pixel of two overlapping regions is ignored: the loop ran and counted nothing
RangeWitness ==
    /\ Counted
    /\ UseIgnore(ignore)
    /\ PixelSet(reg1) \cap PixelSet(reg2) # {}
    /\ union_ = 0
    /\ result = Float(0)

----------------------------------------------------------------------------
(* rasterize_rectangle and copy_mask on a window *)

\* the well-formed windows (left, top, right, bottom)
Windows ==
    {b \in Coord \X Coord \X Coord \X Coord : b[1] <= b[3] /\ b[2] <= b[4]}

CopyGrids ==
    { <<<<1>>>>, <<<<1, 1>>>>, <<<<0, 1>>, <<1, 0>>>>, <<<<1, 1>>, <<1, 0>>>>,
      <<<<1, 0, 1>>>>, <<<<1>>, <<1>>, <<0>>>> }

RasterInputs ==
    {Rectangle(x, y, w, h) : x \in Coord, y \in Coord, w \in 1..MaxExtent, h \in 1..MaxExtent}
    \cup {Mask(g, <<x, y>>) : g \in CopyGrids, x \in Coord, y \in Coord}

InitRaster ==
    /\ reg1 \in RasterInputs
    /\ raster_bounds \in Windows
    /\ pc = "raster"
    /\ reg2 = Empty /\ bounds = <<>> /\ ignore = <<>>
    /\ m1 = <<>> /\ m2 = <<>> /\ m3 = <<>>
    /\ i = 0 /\ intersection = 0 /\ union_ = 0
    /\ result = <<>>

\* the mask the shape layer renders for a rectangle: all ones, same offset and extent
RenderedMask(rect) == Mask(Ones(rect[4], rect[3]), <<rect[1], rect[2]>>)

\* the rectangle is rasterized (m1), and so is its rendered mask (m2)
RasterizeRectangle ==
    /\ pc = "raster"
    /\ reg1.t = _TYPE_RECTANGLE
    /\ m1' = _region_raster(reg1, raster_bounds)
    /\ m2' = _region_raster(RenderedMask(reg1.rect), raster_bounds)
    /\ pc' = "done"
    /\ UNCHANGED <<reg1, reg2, bounds, ignore, raster_bounds, m3, i, intersection, union_, result>>

\* the mask is copied to the window (m1)
CopyMask ==
    /\ pc = "raster"
    /\ reg1.t = _TYPE_MASK
    /\ m1' = _region_raster(reg1, raster_bounds)
    /\ pc' = "done"
    /\ UNCHANGED <<reg1, reg2, bounds, ignore, raster_bounds, m2, m3, i, intersection, union_, result>>

NextRaster == RasterizeRectangle \/ CopyMask

SpecRaster == InitRaster /\ [][NextRaster]_vars

\* the window as pixels, and the cell of grid m that holds pixel p of window b
WindowPixels == BoxPixels(raster_bounds)
CellOf(m, b, p) == m[p[2] - b[2] + 1][p[1] - b[1] + 1]
HasWindowSize(m, b) ==
    /\ Len(m) = b[4] - b[2] + 1
    /\ \A r \in 1..Len(m) : Len(m[r]) = b[3] - b[1] + 1

\* C6 (Mask round-trip): a rectangle and its rendered mask give the same grid on
\* every window: a cell is 1 exactly when its pixel is in the rectangle.
RectangleMatchesRenderedMask ==
    (Done /\ reg1.t = _TYPE_RECTANGLE)
    => /\ m1 = m2
       /\ \A p \in WindowPixels :
              CellOf(m1, raster_bounds, p) = (IF p \in PixelSet(reg1) THEN 1 ELSE 0)

\* C7 (MaskTransfer): copy_mask returns a grid of the size of the window whose cell
\* (row, col) is the source cell at (top+row-offset.y, left+col-offset.x) when that
\* lies in the source and 0 otherwise, and no loop index leaves its array.
CopyMaskTranslates ==
    (Done /\ reg1.t = _TYPE_MASK)
    => /\ HasWindowSize(m1, raster_bounds)
       /\ CopyIndicesInRange(reg1.mask, reg1.o, raster_bounds)
       /\ \A row \in 0..(raster_bounds[4] - raster_bounds[2]) :
          \A col \in 0..(raster_bounds[3] - raster_bounds[1]) :
              LET sr == raster_bounds[2] + row - reg1.o[2]
                  sc == raster_bounds[1] + col - reg1.o[1]
              IN  m1[row + 1][col + 1] =
                      IF sr \in 0..(Len(reg1.mask) - 1) /\ sc \in 0..(Len(reg1.mask[1]) - 1)
                      THEN reg1.mask[sr + 1][sc + 1] ELSE 0

\* a partial overlap: the window starts inside the mask and reaches past it, a set
\* pixel of the mask is copied and another is cut off
CopyMaskWitness ==
    /\ Done /\ reg1.t = _TYPE_MASK
    /\ raster_bounds[1] > reg1.o[1]
    /\ raster_bounds[3] > reg1.o[1] + Len(reg1.mask[1]) - 1
    /\ GridPixels(reg1.mask, reg1.o) \cap WindowPixels # {}
    /\ GridPixels(reg1.mask, reg1.o) \ WindowPixels # {}
    /\ GridPixels(m1, <<raster_bounds[1], raster_bounds[2]>>)
           = GridPixels(reg1.mask, reg1.o) \cap WindowPixels

----------------------------------------------------------------------------
(* rasterize_polygon, row by row *)

\* windows reach up to MaxMargin pixels inside or outside the bounds of the polygon
MaxMargin == 1
Margin == (0 - MaxMargin) .. MaxMargin

\* simple polygons; every edge meets every row at an integer x
ScanPolygons ==
    { <<<<0, 0>>, <<2, 0>>, <<2, 2>>, <<0, 2>>>>,
      <<<<1, 0>>, <<2, 1>>, <<1, 2>>, <<0, 1>>>>,
      <<<<0, 0>>, <<3, 0>>, <<0, 3>>>>,
      <<<<0, 0>>, <<4, 0>>, <<4, 3>>, <<2, 1>>, <<0, 3>>>>,
      <<<<0, 2>>, <<1, 1>>, <<2, 2>>, <<3, 2>>, <<3, 0>>, <<5, 0>>, <<5, 3>>, <<0, 3>>>> }

Translate(points, d) == [n \in 1..Len(points) |-> <<points[n][1] + d[1], points[n][2] + d[2]>>]

InitPolygon ==
    /\ \E p \in ScanPolygons, d \in Coord \X Coord :
           reg1 = Polygon(Translate(p, d))
    /\ \E e \in Margin \X Margin \X Margin \X Margin :
           LET b == _region_bounds(reg1)
           IN  raster_bounds = <<b[1] + e[1], b[2] + e[2], b[3] + e[3], b[4] + e[4]>>
    /\ raster_bounds[1] <= raster_bounds[3] /\ raster_bounds[2] <= raster_bounds[4]
    /\ m1 = Zeros(raster_bounds[4] - raster_bounds[2] + 1, raster_bounds[3] - raster_bounds[1] + 1)
    /\ i = 0
    /\ pc = "scan"
    /\ reg2 = Empty /\ bounds = <<>> /\ ignore = <<>>
    /\ m2 = <<>> /\ m3 = <<>>
    /\ intersection = 0 /\ union_ = 0
    /\ result = <<>>

\* one turn of "Loop through the rows of the image", pixelY = i
ScanLine ==
    /\ pc = "scan"
    /\ i < Len(m1)
    /\ m1' = [m1 EXCEPT ![i + 1] =
                 ScanRow(ShiftPolygon(reg1.pts, raster_bounds), Len(m1[1]), i)]
    /\ i' = i + 1
    /\ UNCHANGED <<reg1, reg2, bounds, ignore, pc, raster_bounds, m2, m3, intersection, union_, result>>

\* return mask
ReturnMask ==
    /\ pc = "scan"
    /\ i = Len(m1)
    /\ pc' = "done"
    /\ UNCHANGED <<reg1, reg2, bounds, ignore, raster_bounds, m1, m2, m3, i, intersection, union_, result>>

NextPolygon == ScanLine \/ ReturnMask

SpecPolygon == InitPolygon /\ [][NextPolygon]_vars

\* the edges <<a, b>> of the closed contour
Edges(points) ==
    {<<points[n], points[IF n = Len(points) THEN 1 ELSE n + 1]>> : n \in 1..Len(points)}

\* twice the signed area of the triangle a b c
Cross(a, b, c) == (b[1] - a[1]) * (c[2] - a[2]) - (b[2] - a[2]) * (c[1] - a[1])

OnSegment(p, e) ==
    /\ Cross(e[1], e[2], p) = 0
    /\ Min(e[1][1], e[2][1]) <= p[1] /\ p[1] <= Max(e[1][1], e[2][1])
    /\ Min(e[1][2], e[2][2]) <= p[2] /\ p[2] <= Max(e[1][2], e[2][2])

OnBoundary(p, points) == \E e \in Edges(points) : OnSegment(p, e)

\* the edge crosses the ray from p to the right (half-open rule, exact)
CrossesRay(p, e) ==
    LET a == e[1]
        b == e[2]
        d == b[2] - a[2]
    IN  /\ (a[2] > p[2]) # (b[2] > p[2])
        /\ IF d > 0 THEN (p[1] - a[1]) * d < (p[2] - a[2]) * (b[1] - a[1])
                    ELSE (p[1] - a[1]) * d > (p[2] - a[2]) * (b[1] - a[1])

OddCrossings(p, points) == Cardinality({e \in Edges(points) : CrossesRay(p, e)}) % 2 = 1

StrictlyInside(p, points) == ~OnBoundary(p, points) /\ OddCrossings(p, points)
StrictlyOutside(p, points) == ~OnBoundary(p, points) /\ ~OddCrossings(p, points)

\* two edges meet
Meet(e, f) ==
    \/ OnSegment(e[1], f) \/ OnSegment(e[2], f) \/ OnSegment(f[1], e) \/ OnSegment(f[2], e)
    \/ /\ Cross(e[1], e[2], f[1]) * Cross(e[1], e[2], f[2]) < 0
       /\ Cross(f[1], f[2], e[1]) * Cross(f[1], f[2], e[2]) < 0

\* a single contour that does not touch or cross itself: edges meet only at the
\* vertex two consecutive ones share
IsSimple(points) ==
    /\ Cardinality({points[n] : n \in 1..Len(points)}) = Len(points)
    /\ \A e \in Edges(points) : \A f \in Edges(points) :
          \/ e = f
          \/ e[2] = f[1] /\ ~OnSegment(e[1], f) /\ ~OnSegment(f[2], e)
          \/ f[2] = e[1] /\ ~OnSegment(f[1], e) /\ ~OnSegment(e[2], f)
          \/ ~Meet(e, f)

\* C10 (Polygon even-odd fill): for a simple polygon the raster has every pixel
\* strictly inside set and every pixel strictly outside clear, also on rows that
\* hold a vertex.
PolygonFillIsEvenOdd ==
    (Done /\ reg1.t = _TYPE_POLYGON /\ IsSimple(reg1.pts))
    => \A p \in WindowPixels :
           /\ StrictlyInside(p, reg1.pts) => CellOf(m1, raster_bounds, p) = 1
           /\ StrictlyOutside(p, reg1.pts) => CellOf(m1, raster_bounds, p) = 0

====
